---- MODULE Spec2Model ----
(***************************************************************************)
(* Model of backend/data/preprocessing.py: the Cleaner (clean_data), the   *)
(* Feature Engineer (engineer_features), the Encoder/Splitter              *)
(* (preprocess_data) and the entry point (main).                           *)
(*                                                                         *)
(* A table (pandas DataFrame) is a record                                  *)
(*   [n, cols, dtype, data]                                                *)
(* n the number of rows, cols the set of column names, dtype[c] "num"      *)
(* (int64/float64) or "obj" (object), data[c] the sequence of the cells of *)
(* column c.  A cell is <<>> when the value is missing (NaN/None) and <<v>>*)
(* otherwise.  A numeric value is a fixed-point integer counting 1/Unit:   *)
(* quantile interpolation divides by 4, the median by 2 and 1.5*IQR by 2,  *)
(* so that two runs of the Cleaner on whole inputs stay exact.             *)
(***************************************************************************)
EXTENDS Integers, Sequences, FiniteSets, TLC

VARIABLES
    df,                 \* the table a stage is called with
    pc,                 \* the next step of the function that runs
    cleaned_df,         \* clean_data: its working copy
    report,             \* clean_data: what it has printed
    engineered_df,      \* engineer_features: its working copy
    X, y,               \* preprocess_data: features and target
    X_train, X_test,    \* preprocess_data: the split features
    y_train, y_test,    \* preprocess_data: the split target
    preprocessor,       \* preprocess_data: the fitted ColumnTransformer
    X_train_processed,  \* preprocess_data: the encoded training rows
    X_test_processed,   \* preprocess_data: the encoded test rows
    raw_data,           \* main: what load_data returned
    cleaned_data,       \* main: what clean_data returned
    processed_data,     \* main: what engineer_features returned
    saved,              \* main: the table given to save_processed_data
    returned,           \* main: its return value
    calls               \* main: the functions it has called, in order

cleanerVars == <<cleaned_df, report>>
engineerVars == <<engineered_df>>
encoderVars == <<X, y, X_train, X_test, y_train, y_test, preprocessor,
                 X_train_processed, X_test_processed>>
mainVars == <<raw_data, cleaned_data, processed_data, saved, returned, calls>>

vars == <<df, pc, cleanerVars, engineerVars, encoderVars, mainVars>>

\* Largest number of rows of a table given to clean_data or loaded by main.
MaxRows == 5

\* Largest number of rows of a table given to engineer_features.
MaxEngRows == 2

\* Largest number of rows of a table given to preprocess_data.
MaxEncRows == 4

\* Python's None.
None == [none |-> TRUE]

\* A variable the running function has not assigned.
Unset == [unset |-> TRUE]

\* Resolution of numeric cells: the value 1.0 is Unit.
Unit == 128

NA == <<>>

\* The object values, in their sort order (Series.mode() sorts its result).
Categories == <<"a", "b">>

StrRank(s) == CHOOSE i \in 1..Len(Categories) : Categories[i] = s

Abs(x) == IF x < 0 THEN -x ELSE x

RECURSIVE SumSeq(_)
SumSeq(s) == IF Len(s) = 0 THEN 0 ELSE s[1] + SumSeq(Tail(s))

(***************************************************************************)
(* Table helpers.                                                          *)
(***************************************************************************)
Row(t, i) == [c \in t.cols |-> t.data[c][i]]

\* The rows idx[1], idx[2], ... of t, in that order.
SelectRows(t, idx) ==
    [n |-> Len(idx), cols |-> t.cols, dtype |-> t.dtype,
     data |-> [c \in t.cols |-> [k \in 1..Len(idx) |-> t.data[c][idx[k]]]]]

\* df.drop(columns=drop)
DropColumns(t, drop) ==
    [n |-> t.n, cols |-> t.cols \ drop,
     dtype |-> [c \in t.cols \ drop |-> t.dtype[c]],
     data |-> [c \in t.cols \ drop |-> t.data[c]]]

\* The members of a set of row numbers in increasing order.
Ascending(S) ==
    [k \in 1..Cardinality(S) |->
        CHOOSE i \in S : Cardinality({j \in S : j <= i}) = k]

\* The non-missing values of a column, as a sequence in column order.
Present(col) ==
    LET kept == SelectSeq(col, LAMBDA c : c # NA)
    IN  [k \in 1..Len(kept) |-> kept[k][1]]

\* The non-missing numeric values of a column in ascending order.
SortedValues(col) == SortSeq(Present(col), LAMBDA a, b : a < b)

\* Series.nunique(): the number of distinct non-missing values.
NUnique(col) == Cardinality({col[i][1] : i \in {j \in 1..Len(col) : col[j] # NA}})

\* DataFrame.isnull().sum() of one column.
NullCount(col) == Cardinality({i \in 1..Len(col) : col[i] = NA})

(***************************************************************************)
(* clean_data, step by step.                                               *)
(***************************************************************************)

\* drop_duplicates(): a row is kept unless an earlier row equals it (missing
\* values compare equal); a table without columns is returned as it is.
DropDuplicates(t) ==
    IF t.cols = {} THEN t
    ELSE SelectRows(t, Ascending({i \in 1..t.n :
                        \A j \in 1..(i - 1) : Row(t, j) # Row(t, i)}))

\* The columns whose nunique() is 1.
SingleValueCols(t) == {c \in t.cols : NUnique(t.data[c]) = 1}

DropSingleValueCols(t) == DropColumns(t, SingleValueCols(t))

DropId(t) == IF "Id" \in t.cols THEN DropColumns(t, {"Id"}) ELSE t

\* Series.median(): missing values are skipped; NaN when nothing is left.
Median(col) ==
    LET s == SortedValues(col)
        m == Len(s)
    IN  IF m = 0 THEN NA
        ELSE IF m % 2 = 1 THEN <<s[(m + 1) \div 2]>>
        ELSE <<(s[m \div 2] + s[m \div 2 + 1]) \div 2>>

\* Series.mode(): the most frequent non-missing values, sorted; empty when the
\* column has no non-missing value.
Mode(col) ==
    LET vals == {col[i][1] : i \in {j \in 1..Len(col) : col[j] # NA}}
        Count(v) == Cardinality({i \in 1..Len(col) : col[i] = <<v>>})
        top == {v \in vals : \A w \in vals : Count(w) <= Count(v)}
    IN  SortSeq(Ascending({StrRank(v) : v \in top}), LAMBDA a, b : a < b)

\* Series.fillna(value): fillna(NaN) fills nothing.
FillNA(col, value) == [i \in 1..Len(col) |-> IF col[i] = NA THEN value ELSE col[i]]

\* mode()[0] of an empty Series raises.
ImputeRaises(t) ==
    \E c \in t.cols : t.dtype[c] = "obj" /\ Len(Mode(t.data[c])) = 0

Impute(t) ==
    [t EXCEPT !.data = [c \in t.cols |->
        IF t.dtype[c] = "num" THEN FillNA(t.data[c], Median(t.data[c]))
        ELSE FillNA(t.data[c], <<Categories[Mode(t.data[c])[1]]>>)]]

\* Series.quantile(k/4), linear interpolation between the two nearest order
\* statistics; NaN for a column without values.
Quantile(col, k) ==
    LET s == SortedValues(col)
        m == Len(s)
        pos == (m - 1) * k
        lo == pos \div 4 + 1
        r == pos % 4
    IN  IF m = 0 THEN NA
        ELSE IF r = 0 THEN <<s[lo]>>
        ELSE <<s[lo] + (r * (s[lo + 1] - s[lo])) \div 4>>

LowerBound(col) ==
    LET Q1 == Quantile(col, 1)
        Q3 == Quantile(col, 3)
    IN  IF Q1 = NA THEN NA ELSE <<Q1[1] - (3 * (Q3[1] - Q1[1])) \div 2>>

UpperBound(col) ==
    LET Q1 == Quantile(col, 1)
        Q3 == Quantile(col, 3)
    IN  IF Q1 = NA THEN NA ELSE <<Q3[1] + (3 * (Q3[1] - Q1[1])) \div 2>>

\* A comparison with NaN is False.
Less(a, b) == a # NA /\ b # NA /\ a[1] < b[1]

\* (col < lower_bound) | (col > upper_bound), summed.
OutlierCount(col) ==
    Cardinality({i \in 1..Len(col) :
        Less(col[i], LowerBound(col)) \/ Less(UpperBound(col), col[i])})

CapColumn_TowardQuartile(col) ==
    LET lower == LowerBound(col)
        upper == UpperBound(col)
    IN  [i \in 1..Len(col) |->
            IF Less(col[i], lower) THEN Quantile(col, 1)
            ELSE IF Less(upper, col[i]) THEN Quantile(col, 3)
            ELSE col[i]]

\* The two .loc assignments; the bounds are those computed before either.
CapColumn(col) ==
    LET lower == LowerBound(col)
        upper == UpperBound(col)
        low == [i \in 1..Len(col) |-> IF Less(col[i], lower) THEN lower ELSE col[i]]
    IN  [i \in 1..Len(col) |-> IF Less(upper, low[i]) THEN upper ELSE low[i]]

\* price_features + area_features
CapFeatures == {"Price", "Price M2", "AreaNet", "AreaGross"}

\* quantile() of an object column raises.
CapRaises(t) == \E c \in t.cols \cap CapFeatures : t.dtype[c] = "obj"

CapOutliers(t) ==
    [t EXCEPT !.data = [c \in t.cols |->
        IF c \in CapFeatures THEN CapColumn(t.data[c]) ELSE t.data[c]]]

CappedCounts(t) == [c \in t.cols \cap CapFeatures |-> OutlierCount(t.data[c])]

\* p/q < r/s for p, r >= 0 and q, s > 0, without forming a product.
RECURSIVE FracLess(_, _, _, _)
FracLess(p, q, r, s) ==
    IF p \div q # r \div s THEN p \div q < r \div s
    ELSE IF r % s = 0 THEN FALSE
    ELSE IF p % q = 0 THEN TRUE
    ELSE FracLess(s, r % s, q, p % q)

\* The sums Series.corr() is made of, over the rows where both values are
\* present: n*Sxy - Sx*Sy, n*Sxx - Sx^2, n*Syy - Sy^2.
CorrParts(xs, ys) ==
    LET rows == Ascending({i \in 1..Len(xs) : xs[i] # NA /\ ys[i] # NA})
        m == Len(rows)
        xv == [k \in 1..m |-> xs[rows[k]][1]]
        yv == [k \in 1..m |-> ys[rows[k]][1]]
        Sx == SumSeq(xv)
        Sy == SumSeq(yv)
    IN  [cov |-> m * SumSeq([k \in 1..m |-> xv[k] * yv[k]]) - Sx * Sy,
         vx |-> m * SumSeq([k \in 1..m |-> xv[k] * xv[k]]) - Sx * Sx,
         vy |-> m * SumSeq([k \in 1..m |-> yv[k] * yv[k]]) - Sy * Sy]

\* The correlation is NaN when either column has no variance.
CorrDefined(xs, ys) == CorrParts(xs, ys).vx > 0 /\ CorrParts(xs, ys).vy > 0

CorrThresholdNum == 3
CorrThresholdDen == 10

\* abs(corr) < 0.3, that is (10 * |cov|)^2 < 3^2 * vx * vy; False for NaN.
AbsCorrBelowThreshold(xs, ys) ==
    LET p == CorrParts(xs, ys)
    IN  /\ CorrDefined(xs, ys)
        /\ \/ p.cov = 0
           \/ FracLess(CorrThresholdDen * Abs(p.cov), CorrThresholdNum * p.vx,
                       CorrThresholdNum * p.vy, CorrThresholdDen * Abs(p.cov))

ShouldPrune_NaNCountsAsLow(t) ==
    /\ "Price M2" \in t.cols
    /\ "Price" \in t.cols
    /\ \/ ~CorrDefined(t.data["Price M2"], t.data["Price"])
       \/ AbsCorrBelowThreshold(t.data["Price M2"], t.data["Price"])

ShouldPrune(t) ==
    /\ "Price M2" \in t.cols
    /\ "Price" \in t.cols
    /\ AbsCorrBelowThreshold(t.data["Price M2"], t.data["Price"])

PruneRedundant(t) == IF ShouldPrune(t) THEN DropColumns(t, {"Price M2"}) ELSE t

\* clean_data as one call: [raised, df].
CleanData(t) ==
    LET a == DropId(DropSingleValueCols(DropDuplicates(t)))
    IN  IF ImputeRaises(a) THEN [raised |-> TRUE, df |-> a]
        ELSE LET b == Impute(a)
             IN  IF CapRaises(b) THEN [raised |-> TRUE, df |-> b]
                 ELSE [raised |-> FALSE, df |-> PruneRedundant(CapOutliers(b))]

(***************************************************************************)
(* Input tables.  Rows are enumerated up to their order (no step of the    *)
(* pipeline depends on it beyond which of two equal rows is kept): a table *)
(* lists its rows in non-decreasing order of their cells.                  *)
(***************************************************************************)
NumCells == <<NA, <<0>>, <<Unit>>>>
ObjCells == <<NA, <<"a">>, <<"b">>>>

\* The column layouts of the tables given to clean_data: per column its
\* name, its dtype and the cells it may hold, in their order.
Schemas ==
    { << <<"Price", "num", NumCells>>, <<"Price M2", "num", NumCells>> >>,
      << <<"Price", "num", NumCells>>, <<"Bedrooms", "num", NumCells>> >>,
      << <<"Price", "num", NumCells>>, <<"PropertyType", "obj", ObjCells>> >>,
      << <<"AreaNet", "num", NumCells>>, <<"AreaGross", "num", NumCells>> >>,
      << <<"Price", "obj", ObjCells>> >>,
      << <<"Bedrooms", "num", NumCells>> >>,
      << <<"PropertyType", "obj", ObjCells>> >> }

\* The non-decreasing sequences of length n over 1..k.
RECURSIVE NonDecreasing(_, _)
NonDecreasing(n, k) ==
    IF n = 0 THEN {<<>>}
    ELSE UNION {{Append(s, r) : r \in (IF Len(s) = 0 THEN 1 ELSE s[Len(s)])..k} :
                    s \in NonDecreasing(n - 1, k)}

\* Rows of a schema are numbered in the lexicographic order of their cells:
\* Weight is the number of rows that share the cells of columns 1..j.
RECURSIVE Weight(_, _)
Weight(schema, j) ==
    IF j = Len(schema) THEN 1
    ELSE Len(schema[j + 1][3]) * Weight(schema, j + 1)

RowKinds(schema) == Len(schema[1][3]) * Weight(schema, 1)

\* The cell of column j in the row of rank r (1..RowKinds).
CellAt(schema, r, j) ==
    schema[j][3][(((r - 1) \div Weight(schema, j)) % Len(schema[j][3])) + 1]

TableOf(schema, ranks, withId) ==
    LET w == Len(schema)
        n == Len(ranks)
        names == {schema[j][1] : j \in 1..w}
        At(c) == CHOOSE j \in 1..w : schema[j][1] = c
        ids == IF withId THEN {"Id"} ELSE {}
    IN  [n |-> n,
         cols |-> names \cup ids,
         dtype |-> [c \in names \cup ids |->
                      IF c \in names THEN schema[At(c)][2] ELSE "num"],
         data |-> [c \in names \cup ids |->
                      IF c \in names
                      THEN [i \in 1..n |-> CellAt(schema, ranks[i], At(c))]
                      ELSE [i \in 1..n |-> <<i * Unit>>]]]

\* t is a table of one of the schemas with minRows..maxRows rows, with or
\* without an Id column numbering its rows.
IsTable(t, schemas, minRows, maxRows) ==
    \E schema \in schemas, withId \in BOOLEAN, n \in minRows..maxRows :
        \E ranks \in NonDecreasing(n, RowKinds(schema)) :
            t = TableOf(schema, ranks, withId)

NoReport == [dups |-> 0, single |-> {}, id |-> FALSE, capped |-> <<>>, pruned |-> FALSE]

(***************************************************************************)
(* The Cleaner as a state machine: pc is the next step of clean_data,      *)
(* report what it has printed so far.                                      *)
(***************************************************************************)
Init ==
    /\ IsTable(df, Schemas, 0, MaxRows)
    /\ cleaned_df = df
    /\ pc = "drop_duplicates"
    /\ report = NoReport
    /\ engineered_df = Unset
    /\ X = Unset /\ y = Unset
    /\ X_train = Unset /\ X_test = Unset /\ y_train = Unset /\ y_test = Unset
    /\ preprocessor = Unset
    /\ X_train_processed = Unset /\ X_test_processed = Unset
    /\ raw_data = Unset /\ cleaned_data = Unset /\ processed_data = Unset
    /\ saved = Unset /\ returned = Unset /\ calls = <<>>

RemoveDuplicates ==
    /\ pc = "drop_duplicates"
    /\ cleaned_df' = DropDuplicates(cleaned_df)
    /\ report' = [report EXCEPT !.dups = cleaned_df.n - DropDuplicates(cleaned_df).n]
    /\ pc' = "single_value"
    /\ UNCHANGED <<df, engineerVars, encoderVars, mainVars>>

RemoveSingleValueCols ==
    /\ pc = "single_value"
    /\ cleaned_df' = DropSingleValueCols(cleaned_df)
    /\ report' = [report EXCEPT !.single = SingleValueCols(cleaned_df)]
    /\ pc' = "id"
    /\ UNCHANGED <<df, engineerVars, encoderVars, mainVars>>

RemoveId ==
    /\ pc = "id"
    /\ cleaned_df' = DropId(cleaned_df)
    /\ report' = [report EXCEPT !.id = "Id" \in cleaned_df.cols]
    /\ pc' = "impute"
    /\ UNCHANGED <<df, engineerVars, encoderVars, mainVars>>

HandleMissing ==
    /\ pc = "impute"
    /\ IF ImputeRaises(cleaned_df)
       THEN pc' = "raised" /\ UNCHANGED cleaned_df
       ELSE pc' = "cap" /\ cleaned_df' = Impute(cleaned_df)
    /\ UNCHANGED <<df, report, engineerVars, encoderVars, mainVars>>

CapStep ==
    /\ pc = "cap"
    /\ IF CapRaises(cleaned_df)
       THEN pc' = "raised" /\ UNCHANGED <<cleaned_df, report>>
       ELSE /\ pc' = "prune"
            /\ cleaned_df' = CapOutliers(cleaned_df)
            /\ report' = [report EXCEPT !.capped = CappedCounts(cleaned_df)]
    /\ UNCHANGED <<df, engineerVars, encoderVars, mainVars>>

PruneStep ==
    /\ pc = "prune"
    /\ cleaned_df' = PruneRedundant(cleaned_df)
    /\ report' = [report EXCEPT !.pruned = ShouldPrune(cleaned_df)]
    /\ pc' = "done"
    /\ UNCHANGED <<df, engineerVars, encoderVars, mainVars>>

Next ==
    \/ RemoveDuplicates
    \/ RemoveSingleValueCols
    \/ RemoveId
    \/ HandleMissing
    \/ CapStep
    \/ PruneStep

Spec == Init /\ [][Next]_vars

(***************************************************************************)
(* engineer_features.                                                      *)
(***************************************************************************)

\* a / b for b > 0 in fixed point, the quotient taken before the scaling.
Div(a, b) == (a \div b) * Unit + ((a % b) * Unit) \div b

\* NaN propagates through a division.
Ratio(num, den) ==
    IF num = NA \/ den = NA THEN NA ELSE <<Div(num[1], den[1])>>

\* df[name] = col
AddColumn(t, name, dtype, col) ==
    [n |-> t.n,
     cols |-> t.cols \cup {name},
     dtype |-> [c \in t.cols \cup {name} |-> IF c = name THEN dtype ELSE t.dtype[c]],
     data |-> [c \in t.cols \cup {name} |-> IF c = name THEN col ELSE t.data[c]]]

\* row[over] / row[under] if row[under] > 0 else <fallback of the row>, for
\* every row; fallback lists the fallback value of each row.
GuardedRatio(t, over, under, fallback) ==
    [i \in 1..t.n |->
        IF Less(<<0>>, t.data[under][i])
        THEN Ratio(t.data[over][i], t.data[under][i])
        ELSE fallback[i]]

WithPricePerBedroom_TableGuard(t) ==
    IF "Price" \in t.cols /\ "Bedrooms" \in t.cols
    THEN AddColumn(t, "PricePerBedroom", "num",
            IF \A i \in 1..t.n : Less(<<0>>, t.data["Bedrooms"][i])
            THEN [i \in 1..t.n |-> Ratio(t.data["Price"][i], t.data["Bedrooms"][i])]
            ELSE t.data["Price"])
    ELSE t

WithPricePerBedroom(t) ==
    IF "Price" \in t.cols /\ "Bedrooms" \in t.cols
    THEN AddColumn(t, "PricePerBedroom", "num",
            GuardedRatio(t, "Price", "Bedrooms", t.data["Price"]))
    ELSE t

WithBathroomToBedroom(t) ==
    IF "Bathrooms" \in t.cols /\ "Bedrooms" \in t.cols
    THEN AddColumn(t, "BathroomToBedroom", "num",
            GuardedRatio(t, "Bathrooms", "Bedrooms", t.data["Bathrooms"]))
    ELSE t

WithAreaUtilizationRatio(t) ==
    IF "AreaNet" \in t.cols /\ "AreaGross" \in t.cols
    THEN AddColumn(t, "AreaUtilizationRatio", "num",
            GuardedRatio(t, "AreaNet", "AreaGross", [i \in 1..t.n |-> <<0>>]))
    ELSE t

\* PropertyType + '_' + PropertySubType; a missing part gives a missing value.
WithPropertyCategory(t) ==
    IF "PropertyType" \in t.cols /\ "PropertySubType" \in t.cols
    THEN AddColumn(t, "PropertyCategory", "obj",
            [i \in 1..t.n |->
                IF t.data["PropertyType"][i] = NA \/ t.data["PropertySubType"][i] = NA
                THEN NA
                ELSE <<t.data["PropertyType"][i][1] \o "_"
                            \o t.data["PropertySubType"][i][1]>>])
    ELSE t

\* engineer_features as one call.
EngineerFeatures(t) ==
    WithPropertyCategory(WithAreaUtilizationRatio(
        WithBathroomToBedroom(WithPricePerBedroom(t))))

PriceCells == <<NA, <<Unit>>, <<3 * Unit>>, <<200000 * Unit>>>>
BedroomCells == <<NA, <<-Unit>>, <<0>>, <<Unit>>, <<2 * Unit>>>>
BathroomCells == <<NA, <<Unit>>, <<2 * Unit>>>>
AreaNetCells == <<NA, <<0>>, <<60 * Unit>>>>
AreaGrossCells == <<NA, <<0>>, <<120 * Unit>>>>

\* The column layouts of the tables given to engineer_features (numeric
\* columns numeric, text columns text, at least one row).
EngSchemas ==
    { << <<"Price", "num", PriceCells>>, <<"Bedrooms", "num", BedroomCells>> >>,
      << <<"Bathrooms", "num", BathroomCells>>, <<"Bedrooms", "num", BedroomCells>> >>,
      << <<"AreaNet", "num", AreaNetCells>>, <<"AreaGross", "num", AreaGrossCells>> >>,
      << <<"PropertyType", "obj", ObjCells>>, <<"PropertySubType", "obj", ObjCells>> >>,
      << <<"Price", "num", PriceCells>>, <<"Bathrooms", "num", BathroomCells>> >> }

EngInit ==
    /\ IsTable(df, EngSchemas, 1, MaxEngRows)
    /\ engineered_df = df
    /\ pc = "price_per_bedroom"
    /\ cleaned_df = Unset /\ report = Unset
    /\ X = Unset /\ y = Unset
    /\ X_train = Unset /\ X_test = Unset /\ y_train = Unset /\ y_test = Unset
    /\ preprocessor = Unset
    /\ X_train_processed = Unset /\ X_test_processed = Unset
    /\ raw_data = Unset /\ cleaned_data = Unset /\ processed_data = Unset
    /\ saved = Unset /\ returned = Unset /\ calls = <<>>

AddPricePerBedroom ==
    /\ pc = "price_per_bedroom"
    /\ engineered_df' = WithPricePerBedroom(engineered_df)
    /\ pc' = "bathroom_to_bedroom"
    /\ UNCHANGED <<df, cleanerVars, encoderVars, mainVars>>

AddBathroomToBedroom ==
    /\ pc = "bathroom_to_bedroom"
    /\ engineered_df' = WithBathroomToBedroom(engineered_df)
    /\ pc' = "area_utilization"
    /\ UNCHANGED <<df, cleanerVars, encoderVars, mainVars>>

AddAreaUtilizationRatio ==
    /\ pc = "area_utilization"
    /\ engineered_df' = WithAreaUtilizationRatio(engineered_df)
    /\ pc' = "property_category"
    /\ UNCHANGED <<df, cleanerVars, encoderVars, mainVars>>

AddPropertyCategory ==
    /\ pc = "property_category"
    /\ engineered_df' = WithPropertyCategory(engineered_df)
    /\ pc' = "engineered"
    /\ UNCHANGED <<df, cleanerVars, encoderVars, mainVars>>

EngNext ==
    \/ AddPricePerBedroom
    \/ AddBathroomToBedroom
    \/ AddAreaUtilizationRatio
    \/ AddPropertyCategory

SpecEng == EngInit /\ [][EngNext]_vars

(***************************************************************************)
(* main: load_data, clean_data, engineer_features, save_processed_data.    *)
(* load_data and save_processed_data are collaborators outside this file:  *)
(* the loader returns None or a table with at least one row.               *)
(***************************************************************************)
MainInit ==
    /\ pc = "load"
    /\ raw_data = Unset /\ cleaned_data = Unset /\ processed_data = Unset
    /\ saved = Unset /\ returned = Unset /\ calls = <<>>
    /\ df = Unset /\ cleaned_df = Unset /\ report = Unset
    /\ engineered_df = Unset
    /\ X = Unset /\ y = Unset
    /\ X_train = Unset /\ X_test = Unset /\ y_train = Unset /\ y_test = Unset
    /\ preprocessor = Unset
    /\ X_train_processed = Unset /\ X_test_processed = Unset

\* raw_data = load_data(input_filepath), a table.
LoadTable ==
    /\ pc = "load"
    /\ IsTable(raw_data', Schemas, 1, MaxRows)
    /\ calls' = Append(calls, "load_data")
    /\ pc' = "check"
    /\ UNCHANGED <<df, cleanerVars, engineerVars, encoderVars,
                   cleaned_data, processed_data, saved, returned>>

\* raw_data = load_data(input_filepath), None.
LoadNone ==
    /\ pc = "load"
    /\ raw_data' = None
    /\ calls' = Append(calls, "load_data")
    /\ pc' = "check"
    /\ UNCHANGED <<df, cleanerVars, engineerVars, encoderVars,
                   cleaned_data, processed_data, saved, returned>>

\* if raw_data is not None: cleaned_data = clean_data(raw_data)
CallClean ==
    /\ pc = "check"
    /\ raw_data # None
    /\ calls' = Append(calls, "clean_data")
    /\ IF CleanData(raw_data).raised
       THEN pc' = "raised" /\ UNCHANGED cleaned_data
       ELSE pc' = "engineer" /\ cleaned_data' = CleanData(raw_data).df
    /\ UNCHANGED <<df, cleanerVars, engineerVars, encoderVars,
                   raw_data, processed_data, saved, returned>>

\* processed_data = engineer_features(cleaned_data)
CallEngineer ==
    /\ pc = "engineer"
    /\ calls' = Append(calls, "engineer_features")
    /\ processed_data' = EngineerFeatures(cleaned_data)
    /\ pc' = "save"
    /\ UNCHANGED <<df, cleanerVars, engineerVars, encoderVars,
                   raw_data, cleaned_data, saved, returned>>

SaveArgument_Cleaned == cleaned_data

\* The table of save_processed_data(processed_data, output_filepath).
SaveArgument == processed_data

CallSave ==
    /\ pc = "save"
    /\ calls' = Append(calls, "save_processed_data")
    /\ saved' = SaveArgument
    /\ pc' = "return"
    /\ UNCHANGED <<df, cleanerVars, engineerVars, encoderVars,
                   raw_data, cleaned_data, processed_data, returned>>

\* return processed_data
ReturnProcessed ==
    /\ pc = "return"
    /\ returned' = processed_data
    /\ pc' = "returned"
    /\ UNCHANGED <<df, cleanerVars, engineerVars, encoderVars,
                   raw_data, cleaned_data, processed_data, saved, calls>>

\* return None
ReturnNone ==
    /\ pc = "check"
    /\ raw_data = None
    /\ returned' = None
    /\ pc' = "returned"
    /\ UNCHANGED <<df, cleanerVars, engineerVars, encoderVars,
                   raw_data, cleaned_data, processed_data, saved, calls>>

MainNext ==
    \/ LoadTable
    \/ LoadNone
    \/ CallClean
    \/ CallEngineer
    \/ CallSave
    \/ ReturnProcessed
    \/ ReturnNone

SpecMain == MainInit /\ [][MainNext]_vars

(***************************************************************************)
(* preprocess_data with its default arguments: target_col = 'Price',       *)
(* test_size = 0.2.  train_test_split shuffles with a seeded generator:    *)
(* which rows fall in the test split is a choice among the subsets of the  *)
(* right size.  StandardScaler's rescaling of the imputed numeric values   *)
(* by the training mean and deviation is not computed; the statistics it   *)
(* is fitted with are kept.                                                *)
(***************************************************************************)
TestSizeNum == 1
TestSizeDen == 5

\* ceil(test_size * n_samples)
TestRows(n) == (n * TestSizeNum + TestSizeDen - 1) \div TestSizeDen

NumericFeatures(t) == {c \in t.cols : t.dtype[c] = "num"}
CategoricalFeatures(t) == {c \in t.cols : t.dtype[c] = "obj"}

\* SimpleImputer(strategy='most_frequent').statistics_ of one column: the
\* smallest of the most frequent values, NaN without any value.
MostFrequent(col) ==
    IF Len(Mode(col)) = 0 THEN NA ELSE <<Categories[Mode(col)[1]]>>

\* OneHotEncoder.categories_ of one imputed column.
CategoriesOf(col) == {col[i][1] : i \in {j \in 1..Len(col) : col[j] # NA}}

FitRows_AllRows(all, train) == all

\* The rows the ColumnTransformer is fitted on: fit_transform(X_train).
FitRows(all, train) == train

\* The fitted transform: per numeric feature the imputer's median and the
\* scaler's count, sum and sum of squares of the imputed column; per
\* categorical feature the imputer's fill value and the encoder's categories.
Fit(t) ==
    [median |-> [c \in NumericFeatures(t) |-> Median(t.data[c])],
     scaler |-> [c \in NumericFeatures(t) |->
                    LET col == Present(FillNA(t.data[c], Median(t.data[c])))
                    IN  [count |-> Len(col), sum |-> SumSeq(col),
                         squares |-> SumSeq([k \in 1..Len(col) |-> col[k] * col[k]])]],
     most_frequent |-> [c \in CategoricalFeatures(t) |-> MostFrequent(t.data[c])],
     categories |-> [c \in CategoricalFeatures(t) |->
                        CategoriesOf(FillNA(t.data[c], MostFrequent(t.data[c])))]]

\* A feature without any value in the rows fitted on: its imputer keeps no
\* column for the next step of the pipeline.
HasEmptyFeature(t) == \E c \in t.cols : NullCount(t.data[c]) = t.n

\* The encoded rows: numeric features imputed, categorical features imputed
\* and expanded to one indicator per fitted category; a value that is not a
\* fitted category sets no indicator (handle_unknown='ignore').
Transform(fitted, t) ==
    [i \in 1..t.n |->
        [num |-> [c \in NumericFeatures(t) |->
                    FillNA(t.data[c], fitted.median[c])[i]],
         cat |-> [c \in CategoricalFeatures(t) |->
                    [k \in fitted.categories[c] |->
                        IF FillNA(t.data[c], fitted.most_frequent[c])[i] = <<k>>
                        THEN 1 ELSE 0]]]]

\* The column layouts of the tables given to preprocess_data.
EncSchemas ==
    { << <<"Price", "num", NumCells>>, <<"PropertyType", "obj", ObjCells>> >>,
      << <<"Price", "num", NumCells>>, <<"Bedrooms", "num", NumCells>> >>,
      << <<"PropertyType", "obj", ObjCells>> >> }

EncInit ==
    /\ IsTable(df, EncSchemas, 0, MaxEncRows)
    /\ pc = "select"
    /\ X = Unset /\ y = Unset
    /\ X_train = Unset /\ X_test = Unset /\ y_train = Unset /\ y_test = Unset
    /\ preprocessor = Unset
    /\ X_train_processed = Unset /\ X_test_processed = Unset
    /\ cleaned_df = Unset /\ report = Unset
    /\ engineered_df = Unset
    /\ raw_data = Unset /\ cleaned_data = Unset /\ processed_data = Unset
    /\ saved = Unset /\ returned = Unset /\ calls = <<>>

\* X = df.drop(columns=[target_col, 'Id'] ...); y = df[target_col]
SelectFeatures ==
    /\ pc = "select"
    /\ IF "Price" \notin df.cols
       THEN pc' = "raised" /\ UNCHANGED <<X, y>>
       ELSE /\ X' = DropColumns(df, {"Price", "Id"})
            /\ y' = df.data["Price"]
            /\ pc' = "split"
    /\ UNCHANGED <<df, X_train, X_test, y_train, y_test, preprocessor,
                   X_train_processed, X_test_processed,
                   cleanerVars, engineerVars, mainVars>>

\* train_test_split: raises when a split would be empty.
Split ==
    /\ pc = "split"
    /\ IF X.n - TestRows(X.n) <= 0
       THEN pc' = "raised" /\ UNCHANGED <<X_train, X_test, y_train, y_test>>
       ELSE \E test \in SUBSET (1..X.n) :
                /\ Cardinality(test) = TestRows(X.n)
                /\ X_train' = SelectRows(X, Ascending((1..X.n) \ test))
                /\ X_test' = SelectRows(X, Ascending(test))
                /\ y_train' = [k \in 1..(X.n - TestRows(X.n)) |->
                                    y[Ascending((1..X.n) \ test)[k]]]
                /\ y_test' = [k \in 1..TestRows(X.n) |-> y[Ascending(test)[k]]]
                /\ pc' = "fit"
    /\ UNCHANGED <<df, X, y, preprocessor, X_train_processed, X_test_processed,
                   cleanerVars, engineerVars, mainVars>>

\* X_train_processed = preprocessor.fit_transform(X_train).  With a feature
\* that has no value in the training rows, the step after its imputer is
\* given no column: depending on the library it raises or goes on without
\* the feature.
FitTransformTrain ==
    /\ pc = "fit"
    /\ \E outcome \in (IF HasEmptyFeature(FitRows(X, X_train))
                      THEN {"raise", "fit"} ELSE {"fit"}) :
        IF outcome = "raise"
        THEN pc' = "raised" /\ UNCHANGED <<preprocessor, X_train_processed>>
        ELSE /\ preprocessor' = Fit(FitRows(X, X_train))
             /\ X_train_processed' = Transform(Fit(FitRows(X, X_train)), X_train)
             /\ pc' = "transform"
    /\ UNCHANGED <<df, X, y, X_train, X_test, y_train, y_test, X_test_processed,
                   cleanerVars, engineerVars, mainVars>>

\* X_test_processed = preprocessor.transform(X_test)
TransformTest ==
    /\ pc = "transform"
    /\ X_test_processed' = Transform(preprocessor, X_test)
    /\ pc' = "preprocessed"
    /\ UNCHANGED <<df, X, y, X_train, X_test, y_train, y_test, preprocessor,
                   X_train_processed, cleanerVars, engineerVars, mainVars>>

EncNext ==
    \/ SelectFeatures
    \/ Split
    \/ FitTransformTrain
    \/ TransformTest

SpecEnc == EncInit /\ [][EncNext]_vars

(***************************************************************************)
(* Claims about the Cleaner.                                               *)
(***************************************************************************)

\* C1: the table clean_data returns has no missing value in any column.
C1_NoMissingValues ==
    pc = "done" =>
        \A c \in cleaned_df.cols : NullCount(cleaned_df.data[c]) = 0

\* C2: the table clean_data returns has no two identical rows (rows of a
\* table left without any column are not compared).
C2_NoDuplicateRows ==
    pc = "done" /\ cleaned_df.cols # {} =>
        \A i, j \in 1..cleaned_df.n :
            i # j => Row(cleaned_df, i) # Row(cleaned_df, j)

\* C3: no column of the table clean_data returns has exactly one distinct
\* value.
C3_NoSingleValueColumn ==
    pc = "done" =>
        \A c \in cleaned_df.cols : NUnique(cleaned_df.data[c]) # 1

\* C4: clean_data is idempotent: cleaning the returned table again returns
\* the same table.
C4_Idempotent ==
    pc = "done" => CleanData(cleaned_df) = [raised |-> FALSE, df |-> cleaned_df]

\* C5 as claimed: Price M2 is dropped iff the input has both Price M2 and
\* Price and the correlation of their imputed, capped values is below 0.3 in
\* magnitude; otherwise it is returned with the values the input had (on the
\* rows duplicate removal keeps).
C5_DroppedIffLowElseAsInput ==
    pc = "done" =>
        LET d == DropDuplicates(df)
            Prepared(c) == CapColumn(FillNA(d.data[c], Median(d.data[c])))
            low == /\ {"Price M2", "Price"} \subseteq df.cols
                   /\ AbsCorrBelowThreshold(Prepared("Price M2"), Prepared("Price"))
        IN  IF low THEN "Price M2" \notin cleaned_df.cols
            ELSE "Price M2" \in df.cols =>
                    /\ "Price M2" \in cleaned_df.cols
                    /\ cleaned_df.data["Price M2"] = d.data["Price M2"]

\* C5 amended: the pruning step drops Price M2 iff Price M2 and Price are
\* both columns of the table it is given and 100*cov^2 < 9*var*var with both
\* variances positive; it changes nothing else, and changes nothing at all
\* when the correlation is undefined or not below the threshold.
C5_PruneIffLowCorrelation ==
    [][pc = "prune" =>
        LET t == cleaned_df
            low == /\ {"Price M2", "Price"} \subseteq t.cols
                   /\ CorrDefined(t.data["Price M2"], t.data["Price"])
                   /\ AbsCorrBelowThreshold(t.data["Price M2"], t.data["Price"])
        IN  /\ ("Price M2" \in t.cols /\ "Price M2" \notin cleaned_df'.cols) <=> low
            /\ ~low => cleaned_df' = t
            /\ low => /\ cleaned_df'.cols = t.cols \ {"Price M2"}
                      /\ cleaned_df'.n = t.n
                      /\ \A c \in cleaned_df'.cols :
                            cleaned_df'.data[c] = t.data[c]]_vars

\* Price M2 was dropped for its low correlation, after capping changed it.
C5_Witness ==
    /\ pc = "done"
    /\ report.pruned
    /\ "Price M2" \in DOMAIN report.capped
    /\ report.capped["Price M2"] > 0

\* C6: capping replaces each value of Price, Price M2, AreaNet and AreaGross
\* by the lower bound when it is below it, by the upper bound when it is
\* above it, and leaves it alone otherwise, the bounds being
\* Q1 - 1.5*(Q3 - Q1) and Q3 + 1.5*(Q3 - Q1) of the column before capping; no
\* row is removed and no other column changes.
C6_CappingClamps ==
    [][pc = "cap" /\ pc' = "prune" =>
        LET t == cleaned_df
            u == cleaned_df'
        IN  /\ u.n = t.n
            /\ u.cols = t.cols
            /\ \A c \in t.cols :
                IF c \in {"Price", "Price M2", "AreaNet", "AreaGross"}
                THEN \A i \in 1..t.n :
                        LET v == t.data[c][i]
                            w == u.data[c][i]
                            Q1 == Quantile(t.data[c], 1)
                            Q3 == Quantile(t.data[c], 3)
                        IN  IF v = NA THEN w = NA
                            ELSE /\ w # NA
                                 /\ 2 * v[1] < 5 * Q1[1] - 3 * Q3[1] =>
                                        2 * w[1] = 5 * Q1[1] - 3 * Q3[1]
                                 /\ 2 * v[1] > 5 * Q3[1] - 3 * Q1[1] =>
                                        2 * w[1] = 5 * Q3[1] - 3 * Q1[1]
                                 /\ (/\ 2 * v[1] >= 5 * Q1[1] - 3 * Q3[1]
                                     /\ 2 * v[1] <= 5 * Q3[1] - 3 * Q1[1]) => w = v
                ELSE u.data[c] = t.data[c]]_vars

\* Capping has raised a value of one column to its lower bound and lowered a
\* value of another to its upper bound.
C6_Witness ==
    /\ pc = "prune"
    /\ \E c, d \in DOMAIN report.capped :
        /\ report.capped[c] > 0
        /\ report.capped[d] > 0
        /\ \A i \in 1..cleaned_df.n : Less(<<0>>, cleaned_df.data[c][i])
        /\ \A i \in 1..cleaned_df.n : Less(cleaned_df.data[d][i], <<Unit>>)

\* C10: clean_data never raises.
C10_NeverRaises == pc # "raised"

(***************************************************************************)
(* Claims about the Feature Engineer.                                      *)
(***************************************************************************)

\* C7 as claimed: with Price and Bedrooms in the table, PricePerBedroom of a
\* row is Price when Bedrooms is 0 and Price / Bedrooms for every other
\* value of Bedrooms (rows without a Bedrooms value are left out, a missing
\* Price gives a missing quotient).
C7_FallbackOnlyAtZero ==
    pc = "engineered" /\ {"Price", "Bedrooms"} \subseteq df.cols =>
        \A i \in 1..df.n :
            LET p == df.data["Price"][i]
                b == df.data["Bedrooms"][i]
                w == engineered_df.data["PricePerBedroom"][i]
            IN  IF b = <<0>> THEN w = p
                ELSE IF b = NA THEN TRUE
                ELSE IF p = NA THEN w = NA
                ELSE w # NA /\ w[1] * (b[1] \div Unit) = p[1]

\* C7 amended: with Price and Bedrooms in the table, PricePerBedroom of a row
\* is Price / Bedrooms when that row's Bedrooms is greater than 0 (missing
\* when Price is missing) and Price in every other case: Bedrooms 0,
\* negative or missing.  Price 200000 with Bedrooms 2 gives 100000.  The
\* tables hold whole numbers of bedrooms.
C7_PricePerBedroomPerRow ==
    pc = "engineered" /\ {"Price", "Bedrooms"} \subseteq df.cols =>
        /\ "PricePerBedroom" \in engineered_df.cols
        /\ engineered_df.n = df.n
        /\ \A i \in 1..df.n :
            LET p == df.data["Price"][i]
                b == df.data["Bedrooms"][i]
                w == engineered_df.data["PricePerBedroom"][i]
            IN  /\ (b # NA /\ b[1] > 0 /\ p # NA) =>
                        /\ b[1] % Unit = 0
                        /\ w # NA
                        /\ w[1] * (b[1] \div Unit) = p[1]
                /\ (b # NA /\ b[1] > 0 /\ p = NA) => w = NA
                /\ (b = NA \/ b[1] <= 0) => w = p
                /\ (p = <<200000 * Unit>> /\ b = <<2 * Unit>>) => w = <<100000 * Unit>>

\* One table with a row of 0 bedrooms, which falls back to Price, and a row
\* of 2 bedrooms and Price 200000, which is divided.
C7_Witness ==
    /\ pc = "engineered"
    /\ {"Price", "Bedrooms"} \subseteq df.cols
    /\ \E i, j \in 1..df.n :
        /\ df.data["Bedrooms"][i] = <<0>>
        /\ df.data["Price"][i] # NA
        /\ engineered_df.data["PricePerBedroom"][i] = df.data["Price"][i]
        /\ df.data["Bedrooms"][j] = <<2 * Unit>>
        /\ df.data["Price"][j] = <<200000 * Unit>>
        /\ engineered_df.data["PricePerBedroom"][j] = <<100000 * Unit>>

(***************************************************************************)
(* Claims about main.                                                      *)
(***************************************************************************)

\* C8: main calls load_data, clean_data, engineer_features and
\* save_processed_data in this order, each at most once and each after the
\* one before it has returned; when the loader returns None nothing else is
\* called and main returns None; when it returns a table, main returns the
\* table engineer_features made of the cleaned table, which is the table
\* given to save_processed_data.
C8_PipelineOrder ==
    LET order == <<"load_data", "clean_data", "engineer_features",
                   "save_processed_data">>
    IN  /\ Len(calls) <= Len(order)
        /\ \A k \in 1..Len(calls) : calls[k] = order[k]
        /\ Len(calls) >= 2 => raw_data \notin {Unset, None}
        /\ Len(calls) >= 3 => cleaned_data # Unset
        /\ Len(calls) >= 4 => processed_data # Unset /\ saved # Unset
        /\ raw_data = None =>
                /\ calls = <<"load_data">>
                /\ cleaned_data = Unset /\ processed_data = Unset /\ saved = Unset
                /\ pc = "returned" => returned = None
        /\ pc = "returned" /\ raw_data # None =>
                /\ calls = order
                /\ cleaned_data = CleanData(raw_data).df
                /\ processed_data = EngineerFeatures(cleaned_data)
                /\ returned = processed_data
                /\ saved = processed_data
        /\ pc # "returned" => returned = Unset

\* main has returned a table to which engineer_features added a column.
C8_Witness ==
    /\ pc = "returned"
    /\ raw_data # None
    /\ returned # cleaned_data
    /\ "PricePerBedroom" \in returned.cols

(***************************************************************************)
(* Claims about the Encoder/Splitter.                                      *)
(***************************************************************************)

====
